---------------------------- MODULE Spec2Model ----------------------------
(***************************************************************************)
(* Model of nitpick's style-fetcher dispatch                               *)
(* (src/nitpick/style/fetchers/__init__.py): the classification of a style *)
(* identifier into (domain, scheme), the registry of fetchers keyed by     *)
(* scheme and by domain, the registration of the schemes on urllib's       *)
(* process-wide tables, the construction of the manager and its fetch.     *)
(*                                                                         *)
(* A style identifier is a sequence of one-character strings, so that      *)
(* parsing and lower-casing are computed character by character.  Registry *)
(* keys, schemes and domains are strings.                                  *)
(***************************************************************************)
EXTENDS Integers, Sequences, FiniteSets, TLC

VARIABLES
    url,            \* the identifier handed to fetch / _get_domain_scheme
    uses_relative,  \* urllib.parse.uses_relative (process-wide list)
    uses_netloc,    \* urllib.parse.uses_netloc (process-wide list)
    lru,            \* the arguments memoized by @lru_cache of _register_on_urllib
    reg_calls,      \* the _register_on_urllib calls of the last operation
    manager,        \* the StyleFetcherManager (constructed or not yet)
    classified,     \* outcome of the last _get_domain_scheme call
    outcome,        \* outcome of the last StyleFetcherManager.fetch call
    pc,             \* per thread: position inside _register_on_urllib
    idx             \* per thread: index of the protocol being registered

vars == <<url, uses_relative, uses_netloc, lru, reg_calls, manager,
          classified, outcome, pc, idx>>

-----------------------------------------------------------------------------
(* Bounds                                                                  *)

\* Durations of the cache option range over 1..MaxDuration units.
MaxDuration == 2

\* Number of threads that build a registry concurrently.
NumThreads == 2

-----------------------------------------------------------------------------
(* Characters and strings                                                  *)

UpperCase == <<"A","B","C","D","E","F","G","H","I","J","K","L","M",
               "N","O","P","Q","R","S","T","U","V","W","X","Y","Z">>

LowerCase == <<"a","b","c","d","e","f","g","h","i","j","k","l","m",
               "n","o","p","q","r","s","t","u","v","w","x","y","z">>

Digits == {"0","1","2","3","4","5","6","7","8","9"}

Range(s) == {s[i] : i \in DOMAIN s}

IsAlpha(c) == c \in Range(UpperCase) \cup Range(LowerCase)

\* str.lower() on one character
LowerChar(c) ==
    IF c \in Range(UpperCase)
    THEN LowerCase[CHOOSE i \in DOMAIN UpperCase : UpperCase[i] = c]
    ELSE c

\* str.lower()
Lower(s) == [i \in DOMAIN s |-> LowerChar(s[i])]

\* the Python str of a sequence of characters
RECURSIVE Str(_)
Str(s) == IF s = <<>> THEN "" ELSE Head(s) \o Str(Tail(s))

\* str.find(c), 1-based; 0 when c does not occur
Find(s, c) ==
    IF \E i \in DOMAIN s : s[i] = c
    THEN CHOOSE i \in DOMAIN s : s[i] = c /\ \A j \in 1..(i - 1) : s[j] # c
    ELSE 0

\* str.rfind(c), 1-based; 0 when c does not occur
RFind(s, c) ==
    IF \E i \in DOMAIN s : s[i] = c
    THEN CHOOSE i \in DOMAIN s : s[i] = c /\ \A j \in (i + 1)..Len(s) : s[j] # c
    ELSE 0

\* first index of a character of cs in s at or after position from; Len(s)+1 if none
FindAny(s, cs, from) ==
    IF \E i \in from..Len(s) : s[i] \in cs
    THEN CHOOSE i \in from..Len(s) : s[i] \in cs /\ \A j \in from..(i - 1) : s[j] \notin cs
    ELSE Len(s) + 1

StartsWith(s, p) == Len(s) >= Len(p) /\ SubSeq(s, 1, Len(p)) = p

Count(x, s) == Cardinality({i \in DOMAIN s : s[i] = x})

-----------------------------------------------------------------------------
(* urllib.parse.urlparse, as _get_domain_scheme uses it                    *)

\* urllib.parse.scheme_chars
scheme_chars == Range(UpperCase) \cup Range(LowerCase) \cup Digits \cup {"+", "-", "."}

\* urlsplit: the scheme is the text before the first ':' when it starts with a
\* letter and holds scheme characters only, and it is lower-cased; after '//'
\* the netloc runs to the first of '/', '?', '#'; an unbalanced bracket in the
\* netloc raises ValueError("Invalid IPv6 URL")
urlsplit(u) ==
    LET i         == Find(u, ":")
        hasScheme == /\ i > 1
                     /\ IsAlpha(u[1])
                     /\ \A k \in 1..(i - 1) : u[k] \in scheme_chars
        rest      == IF hasScheme THEN SubSeq(u, i + 1, Len(u)) ELSE u
        hasNetloc == StartsWith(rest, <<"/", "/">>)
        netloc    == IF hasNetloc
                     THEN SubSeq(rest, 3, FindAny(rest, {"/", "?", "#"}, 3) - 1)
                     ELSE <<>>
    IN  [scheme     |-> IF hasScheme THEN Lower(SubSeq(u, 1, i - 1)) ELSE <<>>,
         has_netloc |-> hasNetloc,
         netloc     |-> netloc,
         raises     |-> \/ ("[" \in Range(netloc) /\ "]" \notin Range(netloc))
                        \/ ("]" \in Range(netloc) /\ "[" \notin Range(netloc))]

\* SplitResult.hostname: the netloc without userinfo and port, lower-cased;
\* the empty sequence stands for None
hostname(netloc) ==
    LET hostinfo  == SubSeq(netloc, RFind(netloc, "@") + 1, Len(netloc))
        open      == Find(hostinfo, "[")
        bracketed == SubSeq(hostinfo, open + 1, Len(hostinfo))
        close     == Find(bracketed, "]")
        colon     == Find(hostinfo, ":")
        host      == IF open > 0
                     THEN IF close > 0 THEN SubSeq(bracketed, 1, close - 1) ELSE bracketed
                     ELSE IF colon > 0 THEN SubSeq(hostinfo, 1, colon - 1) ELSE hostinfo
    IN  Lower(host)

\* urlparse(url): scheme, netloc, hostname, or the ValueError
urlparse(u) ==
    LET split == urlsplit(u)
    IN  [raises |-> split.raises, scheme |-> split.scheme,
         netloc |-> split.netloc, hostname |-> hostname(split.netloc)]

-----------------------------------------------------------------------------
(* nitpick.generic.is_url                                                  *)

\* An identifier is a URL when it parses as one with a scheme of two or more
\* characters followed by "//".  A drive letter ("c:\abc", "c:/abc") and a
\* plain path are not URLs.
is_url(u) ==
    LET split == urlsplit(u)
    IN  /\ Len(split.scheme) >= 2
        /\ split.has_netloc
        /\ ~split.raises

-----------------------------------------------------------------------------
(* StyleFetcherManager._get_domain_scheme                                  *)

\* faulty variant: urlparse without the is_url test
GetDomainSchemeNoGuard(u) ==
    LET parsed == urlparse(u)
    IN  [raises |-> parsed.raises, domain |-> Str(parsed.hostname),
         scheme |-> Str(parsed.scheme)]

\* faulty variant: the netloc as written instead of the hostname
GetDomainSchemeNetloc(u) ==
    IF is_url(u)
    THEN LET parsed == urlparse(u)
         IN  [raises |-> parsed.raises, domain |-> Str(parsed.netloc),
              scheme |-> Str(parsed.scheme)]
    ELSE [raises |-> FALSE, domain |-> "", scheme |-> "file"]

\* (domain, scheme); raises tells whether urlparse's ValueError escapes
_get_domain_scheme(u) ==
    IF is_url(u)
    THEN LET parsed == urlparse(u)
         IN  [raises |-> parsed.raises, domain |-> Str(parsed.hostname),
              scheme |-> Str(parsed.scheme)]
    ELSE [raises |-> FALSE, domain |-> "", scheme |-> "file"]

-----------------------------------------------------------------------------
(* The fetcher variants (nitpick.style.fetchers.file, http, github,        *)
(* pypackage): what each declares                                          *)

\* the classes in the order _get_fetchers instantiates them
FetcherClasses == <<"FileFetcher", "HttpFetcher", "GitHubFetcher", "PythonPackageFetcher">>

requires_connection(klass) == klass \in {"HttpFetcher", "GitHubFetcher"}

protocols(klass) ==
    CASE klass = "FileFetcher"          -> <<"file">>
      [] klass = "HttpFetcher"          -> <<"http", "https">>
      [] klass = "GitHubFetcher"        -> <<"gh", "github">>
      [] klass = "PythonPackageFetcher" -> <<"py", "pypackage">>

domains(klass) ==
    CASE klass = "GitHubFetcher" -> <<"github.com">>
      [] OTHER                   -> <<>>

\* what a fetcher's own fetch(url) may do: return a StyleInfo or raise
FetcherResults ==
    { [exc |-> "", path |-> "None", content |-> ""],
      [exc |-> "", path |-> "resolved", content |-> "text"],
      [exc |-> "FetcherError", path |-> "None", content |-> ""] }

-----------------------------------------------------------------------------
(* _register_on_urllib                                                     *)

\* urllib.parse.uses_relative and uses_netloc as the standard library sets them
StdUsesRelative ==
    <<"", "ftp", "http", "gopher", "nntp", "imap", "wais", "file", "https",
      "shttp", "mms", "prospero", "rtsp", "rtsps", "rtspu", "sftp", "svn",
      "svn+ssh", "ws", "wss">>

StdUsesNetloc ==
    <<"", "ftp", "http", "gopher", "nntp", "telnet", "imap", "wais", "file",
      "mms", "https", "shttp", "snews", "prospero", "rtsp", "rtsps", "rtspu",
      "rsync", "svn", "svn+ssh", "sftp", "nfs", "git", "git+ssh", "ws", "wss">>

\* faulty variant: appends without the membership tests
RegisterBodyNoTest(protocol, rel, net) ==
    [rel |-> Append(rel, protocol), net |-> Append(net, protocol)]

\* the function body, on the two tables
register_body(protocol, rel, net) ==
    [rel |-> IF protocol \notin Range(rel) THEN Append(rel, protocol) ELSE rel,
     net |-> IF protocol \notin Range(net) THEN Append(net, protocol) ELSE net]

\* the memoized call, run to completion; st = [rel, net, lru, calls]
_register_on_urllib(protocol, st) ==
    LET hit   == protocol \in st.lru
        after == IF hit THEN [rel |-> st.rel, net |-> st.net]
                 ELSE register_body(protocol, st.rel, st.net)
    IN  [rel   |-> after.rel,
         net   |-> after.net,
         lru   |-> st.lru \cup {protocol},
         calls |-> Append(st.calls,
                     [protocol |-> protocol, hit |-> hit,
                      rel_before |-> st.rel, net_before |-> st.net,
                      rel_after |-> after.rel, net_after |-> after.net])]

-----------------------------------------------------------------------------
(* _fetchers_to_pairs and _get_fetchers                                    *)

\* acc = [st, pairs]: the protocols of one fetcher, from the k-th on
RECURSIVE ProtocolPairs(_, _, _)
ProtocolPairs(fetcher, k, acc) ==
    IF k > Len(protocols(fetcher.klass)) THEN acc
    ELSE LET protocol == protocols(fetcher.klass)[k]
         IN  ProtocolPairs(fetcher, k + 1,
                [st    |-> _register_on_urllib(protocol, acc.st),
                 pairs |-> Append(acc.pairs, <<protocol, fetcher>>)])

DomainPairs(fetcher) ==
    [k \in DOMAIN domains(fetcher.klass) |-> <<domains(fetcher.klass)[k], fetcher>>]

RECURSIVE _fetchers_to_pairs(_, _)
_fetchers_to_pairs(fetchers, acc) ==
    IF fetchers = <<>> THEN acc
    ELSE LET withProtocols == ProtocolPairs(Head(fetchers), 1, acc)
         IN  _fetchers_to_pairs(Tail(fetchers),
                [st    |-> withProtocols.st,
                 pairs |-> withProtocols.pairs \o DomainPairs(Head(fetchers))])

\* klass(session) if klass.requires_connection else klass()
_factory(klass) == [klass |-> klass, with_session |-> requires_connection(klass)]

\* dict(pairs): a later pair replaces an earlier one with the same key
dict(pairs) ==
    [key \in {pairs[i][1] : i \in DOMAIN pairs} |->
        pairs[CHOOSE i \in DOMAIN pairs :
                /\ pairs[i][1] = key
                /\ \A j \in (i + 1)..Len(pairs) : pairs[j][1] # key][2]]

\* the registry and the state of the tables after building it
_get_fetchers(st) ==
    LET fetchers == [k \in DOMAIN FetcherClasses |-> _factory(FetcherClasses[k])]
        built    == _fetchers_to_pairs(fetchers, [st |-> st, pairs |-> <<>>])
    IN  [st |-> built.st, fetchers |-> dict(built.pairs)]

NoFetcher == [klass |-> "None", with_session |-> FALSE]

\* dict.get(key): the fetcher, or None
Get(registry, key) == IF key \in DOMAIN registry THEN registry[key] ELSE NoFetcher

-----------------------------------------------------------------------------
(* nitpick.style.parse_cache_option and StyleFetcherManager.__post_init__  *)

\* the raw cache option: "forever", "never", unset, or a duration
CacheOptions ==
    { [word |-> w, amount |-> 0] : w \in {"forever", "never", ""} }
      \cup { [word |-> u, amount |-> n] : u \in {"minutes", "hours"}, n \in 1..MaxDuration }

SecondsIn(unit) == IF unit = "hours" THEN 60 * 60 ELSE 60

\* (caching mode, expire_after in seconds); -1 is "never expires", 0 is
\* "expires at once"
parse_cache_option(option) ==
    CASE option.word = "never"          -> [caching |-> "NEVER", expire_after |-> 0]
      [] option.word \in {"forever", ""} -> [caching |-> "FOREVER", expire_after |-> -1]
      [] OTHER -> [caching |-> "EXPIRES",
                   expire_after |-> option.amount * SecondsIn(option.word)]

NoSession == [cache_name |-> <<>>, expire_after |-> 0, cache_control |-> FALSE]

NotConstructed ==
    [constructed |-> FALSE, offline |-> FALSE, cache_option |-> [word |-> "", amount |-> 0],
     session |-> NoSession, fetchers |-> <<>>]

TableState == [rel |-> uses_relative, net |-> uses_netloc, lru |-> lru, calls |-> <<>>]

\* faulty variant: cache_control for every mode but NEVER
CacheControlUnlessNever(caching) == caching # "NEVER"

\* cache_control = caching is CachingEnum.EXPIRES
cache_control(caching) == caching = "EXPIRES"

\* StyleFetcherManager(offline, cache_dir, cache_option)
__post_init__(offline, cache_option) ==
    LET parsed  == parse_cache_option(cache_option)
        session == [cache_name |-> <<"cache_dir", "styles">>,
                    expire_after |-> parsed.expire_after,
                    cache_control |-> cache_control(parsed.caching)]
        built   == _get_fetchers(TableState)
    IN  /\ manager' = [constructed |-> TRUE, offline |-> offline,
                       cache_option |-> cache_option, session |-> session,
                       fetchers |-> built.fetchers]
        /\ uses_relative' = built.st.rel
        /\ uses_netloc' = built.st.net
        /\ lru' = built.st.lru
        /\ reg_calls' = built.st.calls
        /\ UNCHANGED <<url, classified, outcome, pc, idx>>

-----------------------------------------------------------------------------
(* StyleFetcherManager.fetch                                               *)

\* faulty variant: the scheme lookup before the domain lookup
ResolveSchemeFirst(registry, domain, scheme) ==
    LET byScheme == Get(registry, scheme)
        byDomain == IF domain # "" THEN Get(registry, domain) ELSE NoFetcher
    IN  IF byScheme # NoFetcher THEN [fetcher |-> byScheme, via |-> "scheme"]
        ELSE IF byDomain # NoFetcher THEN [fetcher |-> byDomain, via |-> "domain"]
        ELSE [fetcher |-> NoFetcher, via |-> "none"]

\* faulty variant: the file fetcher when no lookup gives one
ResolveDefaultFile(registry, domain, scheme) ==
    LET byDomain == IF domain # "" THEN Get(registry, domain) ELSE NoFetcher
        byScheme == Get(registry, scheme)
    IN  IF byDomain # NoFetcher THEN [fetcher |-> byDomain, via |-> "domain"]
        ELSE IF byScheme # NoFetcher THEN [fetcher |-> byScheme, via |-> "scheme"]
        ELSE [fetcher |-> Get(registry, "file"), via |-> "scheme"]

\* the fetcher by domain first, then by scheme; via tells which lookup gave it
Resolve(registry, domain, scheme) ==
    LET byDomain == IF domain # "" THEN Get(registry, domain) ELSE NoFetcher
        byScheme == Get(registry, scheme)
    IN  IF byDomain # NoFetcher THEN [fetcher |-> byDomain, via |-> "domain"]
        ELSE IF byScheme # NoFetcher THEN [fetcher |-> byScheme, via |-> "scheme"]
        ELSE [fetcher |-> NoFetcher, via |-> "none"]

\* faulty variant: the offline flag ignored
SkipsNever(offline, fetcher) == FALSE

\* if self.offline and fetcher.requires_connection
Skips(offline, fetcher) == offline /\ requires_connection(fetcher.klass)

\* faulty variant: the fetcher is given the lower-cased identifier
DelegateLowered(fetcher, u, result) ==
    [calls |-> <<[fetcher |-> fetcher.klass, url |-> Lower(u)]>>,
     exc |-> result.exc, msg |-> <<>>, path |-> result.path, content |-> result.content]

\* return fetcher.fetch(url): one call, its result or its exception
Delegate(fetcher, u, result) ==
    [calls |-> <<[fetcher |-> fetcher.klass, url |-> u]>>,
     exc |-> result.exc, msg |-> <<>>, path |-> result.path, content |-> result.content]

\* raise RuntimeError(f"URI protocol {scheme!r} is not supported")
UnsupportedProtocol(scheme) ==
    [calls |-> <<>>, exc |-> "RuntimeError",
     msg |-> <<"URI protocol ", scheme, " is not supported">>,
     path |-> "None", content |-> ""]

\* return None, ""
Skipped == [calls |-> <<>>, exc |-> "", msg |-> <<>>, path |-> "None", content |-> ""]

\* the ValueError of urlparse leaves fetch as it is
ValueError ==
    [calls |-> <<>>, exc |-> "ValueError", msg |-> <<"Invalid IPv6 URL">>,
     path |-> "None", content |-> ""]

NoResult == [exc |-> "", path |-> "None", content |-> ""]

NotCalled ==
    [called |-> FALSE, offline |-> FALSE, domain |-> "", scheme |-> "", via |-> "none",
     fetcher |-> "None", fetched |-> NoResult, did |-> Skipped]

\* manager.fetch(url); result is what the chosen fetcher's fetch does when called
fetch(result) ==
    LET ds       == _get_domain_scheme(url)
        resolved == Resolve(manager.fetchers, ds.domain, ds.scheme)
        fetcher  == resolved.fetcher
        delegated == ~ds.raises /\ fetcher # NoFetcher /\ ~Skips(manager.offline, fetcher)
    IN  /\ manager.constructed
        \* the fetcher's result matters only when the fetcher is called
        /\ ~delegated => result = NoResult
        /\ outcome' =
             [called  |-> TRUE, offline |-> manager.offline, domain |-> ds.domain, scheme |-> ds.scheme,
              via     |-> resolved.via, fetcher |-> fetcher.klass,
              fetched |-> result,
              did     |-> IF ds.raises THEN ValueError
                          ELSE IF fetcher = NoFetcher THEN UnsupportedProtocol(ds.scheme)
                          ELSE IF Skips(manager.offline, fetcher) THEN Skipped
                          ELSE Delegate(fetcher, url, result)]
        /\ UNCHANGED <<url, uses_relative, uses_netloc, lru, reg_calls, manager,
                       classified, pc, idx>>

NotClassified == [called |-> FALSE, raises |-> FALSE, domain |-> "", scheme |-> ""]

\* StyleFetcherManager._get_domain_scheme(url), called on its own
classify ==
    LET ds == _get_domain_scheme(url)
    IN  /\ classified' = [called |-> TRUE, raises |-> ds.raises,
                          domain |-> ds.domain, scheme |-> ds.scheme]
        /\ UNCHANGED <<url, uses_relative, uses_netloc, lru, reg_calls, manager,
                       outcome, pc, idx>>

-----------------------------------------------------------------------------
(* The identifiers fetch and _get_domain_scheme are given                  *)

\* what may stand where a scheme stands: nothing, a drive letter, schemes in either case
Prefixes ==
    { <<>>,
      <<"c">>,
      <<"h", "t", "t", "p">>,
      <<"H", "T", "T", "P">>,
      <<"g", "h">>,
      <<"f", "t", "p">>,
      <<"f", "i", "l", "e">> }

\* nothing, ":", ":/", ":\", "://"
Separators ==
    { <<>>,
      <<":">>,
      <<":", "/">>,
      <<":", "\\">>,
      <<":", "/", "/">> }

\* nothing, hosts in either case, a host with userinfo and port, an open bracket
Authorities ==
    { <<>>,
      <<"g", "h">>,
      <<"p", "y">>,
      <<"g", "i", "t", "h", "u", "b", ".", "c", "o", "m">>,
      <<"G", "i", "t", "H", "u", "b", ".", "c", "o", "m">>,
      <<"s", "e", "r", "v", "e", "r", ".", "c", "o", "m">>,
      <<"u", "@", "g", "i", "t", "h", "u", "b", ".", "c", "o", "m", ":", "8", "0">>,
      <<"[", "x">> }

\* nothing, an absolute path, a relative path
Paths ==
    { <<>>,
      <<"/", "a", "b", "c">>,
      <<"a", "b", "c">> }

Identifiers ==
    { p \o s \o a \o t : p \in Prefixes, s \in Separators, a \in Authorities, t \in Paths }

-----------------------------------------------------------------------------
(* Operations and specifications                                           *)

DefaultCacheOption == [word |-> "", amount |-> 0]

Threads == 1..NumThreads

InitTables ==
    /\ uses_relative = StdUsesRelative
    /\ uses_netloc = StdUsesNetloc
    /\ lru = {}
    /\ reg_calls = <<>>
    /\ manager = NotConstructed
    /\ classified = NotClassified
    /\ outcome = NotCalled
    /\ pc = [t \in Threads |-> "call"]
    /\ idx = [t \in Threads |-> 1]

\* a direct call of _register_on_urllib(protocol)
register(protocol) ==
    LET st == _register_on_urllib(protocol, TableState)
    IN  /\ uses_relative' = st.rel
        /\ uses_netloc' = st.net
        /\ lru' = st.lru
        /\ reg_calls' = st.calls
        /\ UNCHANGED <<url, manager, classified, outcome, pc, idx>>

\* the protocols the callers of _register_on_urllib pass
DirectProtocols == {"gh", "py", "http", "telnet", "style"}

(* Dispatch: one identifier, a manager constructed offline or online, fetch *)
(* and classification of the identifier.                                    *)
Init == url \in Identifiers /\ InitTables

Next ==
    \/ \E offline \in BOOLEAN : __post_init__(offline, DefaultCacheOption)
    \/ \E result \in FetcherResults : fetch(result)
    \/ classify

Spec == Init /\ [][Next]_vars

(* Registry: managers constructed with every cache option, and direct      *)
(* registrations, in any order.                                            *)
InitRegistry == url = <<>> /\ InitTables

NextRegistry ==
    \/ \E offline \in BOOLEAN, option \in CacheOptions : __post_init__(offline, option)
    \/ \E protocol \in DirectProtocols : register(protocol)

SpecRegistry == InitRegistry /\ [][NextRegistry]_vars

-----------------------------------------------------------------------------
(* Threads that build a registry at the same time.  Each calls             *)
(* _register_on_urllib for the protocols in the order _fetchers_to_pairs   *)
(* yields them; a thread may be preempted between the membership test and  *)
(* the append, and the lru_cache runs the function for every call that     *)
(* arrives before a result is stored.                                      *)

RECURSIVE ProtocolsOf(_)
ProtocolsOf(classes) ==
    IF classes = <<>> THEN <<>> ELSE protocols(Head(classes)) \o ProtocolsOf(Tail(classes))

BuildProtocols == ProtocolsOf(FetcherClasses)

Protocol(t) == BuildProtocols[idx[t]]

ThreadUnchanged == UNCHANGED <<url, reg_calls, manager, classified, outcome>>

\* the lru_cache wrapper: a stored result returns at once
thread_call(t) ==
    /\ pc[t] = "call"
    /\ IF idx[t] > Len(BuildProtocols)
       THEN pc' = [pc EXCEPT ![t] = "done"] /\ idx' = idx
       ELSE IF Protocol(t) \in lru
            THEN idx' = [idx EXCEPT ![t] = @ + 1] /\ pc' = pc
            ELSE pc' = [pc EXCEPT ![t] = "test_relative"] /\ idx' = idx
    /\ UNCHANGED <<uses_relative, uses_netloc, lru>>
    /\ ThreadUnchanged

\* if protocol not in uses_relative
thread_test_relative(t) ==
    /\ pc[t] = "test_relative"
    /\ pc' = [pc EXCEPT ![t] = IF Protocol(t) \notin Range(uses_relative)
                                THEN "append_relative" ELSE "test_netloc"]
    /\ UNCHANGED <<uses_relative, uses_netloc, lru, idx>>
    /\ ThreadUnchanged

\* uses_relative.append(protocol)
thread_append_relative(t) ==
    /\ pc[t] = "append_relative"
    /\ uses_relative' = Append(uses_relative, Protocol(t))
    /\ pc' = [pc EXCEPT ![t] = "test_netloc"]
    /\ UNCHANGED <<uses_netloc, lru, idx>>
    /\ ThreadUnchanged

\* if protocol not in uses_netloc
thread_test_netloc(t) ==
    /\ pc[t] = "test_netloc"
    /\ pc' = [pc EXCEPT ![t] = IF Protocol(t) \notin Range(uses_netloc)
                                THEN "append_netloc" ELSE "store"]
    /\ UNCHANGED <<uses_relative, uses_netloc, lru, idx>>
    /\ ThreadUnchanged

\* uses_netloc.append(protocol)
thread_append_netloc(t) ==
    /\ pc[t] = "append_netloc"
    /\ uses_netloc' = Append(uses_netloc, Protocol(t))
    /\ pc' = [pc EXCEPT ![t] = "store"]
    /\ UNCHANGED <<uses_relative, lru, idx>>
    /\ ThreadUnchanged

\* the lru_cache wrapper stores the result; the loop goes on to the next protocol
thread_store(t) ==
    /\ pc[t] = "store"
    /\ lru' = lru \cup {Protocol(t)}
    /\ idx' = [idx EXCEPT ![t] = @ + 1]
    /\ pc' = [pc EXCEPT ![t] = "call"]
    /\ UNCHANGED <<uses_relative, uses_netloc>>
    /\ ThreadUnchanged

NextThreads ==
    \E t \in Threads :
        \/ thread_call(t)
        \/ thread_test_relative(t)
        \/ thread_append_relative(t)
        \/ thread_test_netloc(t)
        \/ thread_append_netloc(t)
        \/ thread_store(t)

SpecThreads == InitRegistry /\ [][NextThreads]_vars

AllDone == \A t \in Threads : pc[t] = "done"

-----------------------------------------------------------------------------
(* Properties                                                              *)

Registry == manager.fetchers

Keys == DOMAIN Registry

\* C1: when the classified domain and the classified scheme are both keys of
\* the registry, fetch chooses the fetcher stored under the domain; the scheme
\* lookup gives the fetcher only when the domain is empty or is no key.
C1_DomainBeforeScheme ==
    outcome.called =>
        LET ds == _get_domain_scheme(url)
        IN  /\ (ds.domain \in Keys /\ ds.scheme \in Keys) =>
                  /\ outcome.fetcher = Registry[ds.domain].klass
                  /\ outcome.via = "domain"
            /\ outcome.via = "scheme" => (ds.domain = "" \/ ds.domain \notin Keys)

\* a domain and a scheme that name different fetchers: the domain's one is chosen
C1_Witness ==
    /\ outcome.called
    /\ outcome.domain = "github.com"
    /\ outcome.scheme = "http"
    /\ Registry["http"].klass = "HttpFetcher"
    /\ outcome.fetcher = "GitHubFetcher"

\* C2: offline, with a resolved fetcher that requires a connection, fetch
\* returns (None, "") without calling the fetcher and without raising.
C2_OfflineSkip ==
    (/\ outcome.called
     /\ outcome.offline
     /\ outcome.fetcher # "None"
     /\ requires_connection(outcome.fetcher)) =>
        /\ outcome.did.calls = <<>>
        /\ outcome.did.exc = ""
        /\ outcome.did.path = "None"
        /\ outcome.did.content = ""

C2_Witness ==
    /\ outcome.called
    /\ outcome.offline
    /\ outcome.fetcher = "HttpFetcher"
    /\ outcome.did = Skipped

\* C3: when neither the classified domain nor the classified scheme is a key
\* of the registry, fetch raises the unsupported-protocol error carrying the
\* scheme, offline or not, and calls no fetcher.
C3_UnsupportedProtocol ==
    outcome.called =>
        LET ds == _get_domain_scheme(url)
        IN  (ds.domain \notin Keys /\ ds.scheme \notin Keys) =>
                /\ outcome.did.exc = "RuntimeError"
                /\ outcome.did.msg = <<"URI protocol ", ds.scheme, " is not supported">>
                /\ outcome.did.calls = <<>>

C3_Witness ==
    /\ outcome.called
    /\ outcome.offline
    /\ outcome.scheme = "ftp"
    /\ outcome.domain = "server.com"
    /\ outcome.did = UnsupportedProtocol("ftp")

\* C4: when a fetcher is resolved and it is not the case that the manager is
\* offline and the fetcher requires a connection, fetch calls that fetcher
\* once with the identifier as given and returns what it returns; what it
\* raises reaches the caller.
C4_Delegates ==
    (/\ outcome.called
     /\ outcome.fetcher # "None"
     /\ ~(outcome.offline /\ requires_connection(outcome.fetcher))) =>
        /\ outcome.did.calls = <<[fetcher |-> outcome.fetcher, url |-> url]>>
        /\ outcome.did.exc = outcome.fetched.exc
        /\ outcome.did.path = outcome.fetched.path
        /\ outcome.did.content = outcome.fetched.content

\* offline, a fetcher that needs no connection is called, with an identifier
\* that holds upper-case letters, and its exception reaches the caller
C4_Witness ==
    /\ outcome.called
    /\ outcome.offline
    /\ outcome.fetcher = "FileFetcher"
    /\ url # Lower(url)
    /\ outcome.did.calls = <<[fetcher |-> "FileFetcher", url |-> url]>>
    /\ outcome.did.exc = "FetcherError"

\* a path: absolute, relative (no colon), or a drive letter, a colon and a slash
IsLocalPath(u) ==
    \/ (u # <<>> /\ u[1] = "/")
    \/ ":" \notin Range(u)
    \/ (Len(u) >= 3 /\ IsAlpha(u[1]) /\ u[2] = ":" /\ u[3] \in {"/", "\\"})

\* an identifier that urlparse refuses, or that starts with the colon
IsMalformed(u) == urlsplit(u).raises \/ Find(u, ":") = 1

\* C5: a local path (absolute, relative or with a drive letter) and a
\* malformed identifier are classified ("", "file") without an exception, and
\* one letter before a colon is never returned as the scheme.
C5_PathsAreFiles ==
    classified.called =>
        /\ (IsLocalPath(url) \/ IsMalformed(url)) =>
              /\ ~classified.raises
              /\ classified.domain = ""
              /\ classified.scheme = "file"
        /\ (Len(url) >= 2 /\ IsAlpha(url[1]) /\ url[2] = ":") =>
              classified.scheme \notin {url[1], LowerChar(url[1])}

C5_Witness ==
    /\ classified.called
    /\ url = <<"c", ":", "\\", "a", "b", "c">>
    /\ classified.domain = ""
    /\ classified.scheme = "file"

SchemeSeparator == <<":", "/", "/">>

\* hosts as written in scheme://host/path: no userinfo, no port, no bracket
PlainHosts == {a \in Authorities : Range(a) \cap {"@", ":", "[", "]"} = {}}

UrlPaths == {t \in Paths : t = <<>> \/ t[1] = "/"}

\* C6 as stated: a recognised URL scheme://host/path is classified
\* (host, scheme lower-cased), with "" for the domain when there is no host.
C6_HostAsWritten ==
    classified.called =>
        \A p \in Prefixes, a \in PlainHosts, t \in UrlPaths :
            (url = p \o SchemeSeparator \o a \o t /\ is_url(url)) =>
                /\ ~classified.raises
                /\ classified.domain = Str(a)
                /\ classified.scheme = Str(Lower(p))

\* C6 amended: a recognised URL scheme://host/path is classified
\* (host lower-cased, scheme lower-cased), with "" for the domain when there
\* is no host.
C6_HostLowered ==
    classified.called =>
        \A p \in Prefixes, a \in PlainHosts, t \in UrlPaths :
            (url = p \o SchemeSeparator \o a \o t /\ is_url(url)) =>
                /\ ~classified.raises
                /\ classified.domain = Str(Lower(a))
                /\ classified.scheme = Str(Lower(p))

C6_Witness ==
    /\ classified.called
    /\ url = <<"H", "T", "T", "P", ":", "/", "/", "G", "i", "t", "H", "u", "b", ".", "c", "o", "m", "/", "a", "b", "c">>
    /\ classified.domain = "github.com"
    /\ classified.scheme = "http"

\* the keys of the registry that are schemes
SchemeKeys == Keys \cap Range(BuildProtocols)

\* C7: after any series of registry builds and direct registrations, every
\* scheme key of the built registry is in both tables, no registered scheme
\* occurs twice in a table, and a registration of a scheme already registered
\* leaves both tables as they were.
C7_RegisteredOnce ==
    /\ manager.constructed =>
          \A p \in SchemeKeys : p \in Range(uses_relative) /\ p \in Range(uses_netloc)
    /\ \A p \in lru \cup (IF manager.constructed THEN SchemeKeys ELSE {}) :
          Count(p, uses_relative) = 1 /\ Count(p, uses_netloc) = 1
    /\ \A i \in DOMAIN reg_calls :
          LET call == reg_calls[i]
          IN  (\/ call.hit
               \/ /\ call.protocol \in Range(call.rel_before)
                  /\ call.protocol \in Range(call.net_before)) =>
                  /\ call.rel_after = call.rel_before
                  /\ call.net_after = call.net_before

\* a registry was built after "gh" had been registered directly: the build's
\* registration of "gh" is a repetition
C7_Witness ==
    /\ manager.constructed
    /\ \E i \in DOMAIN reg_calls : reg_calls[i].protocol = "gh" /\ reg_calls[i].hit
    /\ Count("gh", uses_relative) = 1
    /\ Count("style", uses_netloc) = 1

\* C8: "forever" gives no expiration and cache_control false, "never" gives
\* expiration at once and cache_control false, a duration gives that duration
\* and cache_control true; cache_control is true exactly when the caching mode
\* is EXPIRES.
C8_CachePolicy ==
    manager.constructed =>
        LET option  == manager.cache_option
            session == manager.session
        IN  /\ option.word = "forever" =>
                  session.expire_after = -1 /\ ~session.cache_control
            /\ option.word = "never" =>
                  session.expire_after = 0 /\ ~session.cache_control
            /\ option.amount > 0 =>
                  /\ session.expire_after = option.amount * SecondsIn(option.word)
                  /\ session.cache_control
            /\ session.cache_control <=> parse_cache_option(option).caching = "EXPIRES"

C8_Witness ==
    /\ manager.constructed
    /\ manager.cache_option = [word |-> "hours", amount |-> 1]
    /\ manager.session.expire_after = 60 * 60
    /\ manager.session.cache_control

\* C9: when threads build a registry at the same time, every interleaving
\* ends with each scheme exactly once in uses_relative and in uses_netloc.
C9_ConcurrentOnce ==
    AllDone =>
        \A p \in Range(BuildProtocols) :
            Count(p, uses_relative) = 1 /\ Count(p, uses_netloc) = 1

\* C10: a fetcher chosen by the domain lookup declares that domain; a host
\* that equals a scheme is never dispatched by domain to that scheme's fetcher.
C10_DomainDeclared ==
    (outcome.called /\ outcome.via = "domain") =>
        outcome.domain \in Range(domains(outcome.fetcher))

=============================================================================
